---- MODULE Spec2Model ----
(***************************************************************************)
(* One s4 server node (src/s4/server.py): the tornado event loop running   *)
(* the request handlers, the one-worker solo pool, the io pool, the job    *)
(* table io_jobs, the blob namespace on disk and the GC loop.              *)
(*                                                                         *)
(* Granularity.  A handler runs on the event loop from one await to the    *)
(* next without interruption; every such stretch is one action.  A task of *)
(* the solo pool runs on the solo thread.  The only file operations that   *)
(* run on another thread than the solo thread are the s4.delete calls of   *)
(* the handlers' except branches (event loop thread) and the copier        *)
(* commands (io threads), so confirm_put, local_put and the loop's         *)
(* s4.delete are split into one step per file operation; the other solo    *)
(* tasks only read, or write after reads that a concurrent delete cannot   *)
(* invalidate, and are one step each.                                      *)
(***************************************************************************)
EXTENDS Integers, Sequences, FiniteSets, TLC

\* ---------------------------------------------------------------- bounds
\* Each specification bounds the uuids drawn in one run (the jobs created by
\* prepare_put and prepare_get) and the handler coroutines in flight at the
\* same time (the GC loop not counted).
\* Spec: requests of clients that wait for each response
MaxJobs == 3
MaxHandlers == 1
\* SpecRace: concurrent requests on one key
RaceJobs == 2
RaceHandlers == 2
\* SpecSweep: puts of two keys under the GC loop
SweepJobs == 2
\* SpecKeys: prepare_put of keys the node refuses
KeysJobs == 1
\* SpecRead: presence checks of a key that is put and deleted
ReadJobs == 2
ReadHandlers == 1
\* SpecGet: gets of a key that is put, deleted and put again
GetJobs == 1
GetHandlers == 1
\* SpecGetRm: gets and deletes of one key in flight together
GetRmJobs == 1
GetRmHandlers == 2
\* SpecSlot: puts and confirm_get requests for their uuids
SlotJobs == 2
SlotHandlers == 1
\* SpecReap: puts that no confirm follows
ReapJobs == 2
ReapHandlers == 1
\* SpecMap: the per-key tasks of one map request, the map handlers in flight
MapTasks == 2
MapHandlers == 1
\* SpecPick: the lines of ~/.s4.conf
MaxServers == 3

\* S4_IO_JOBS: the workers of the io pool
max_io_jobs == 1
\* S4_CPU_JOBS: the workers of the cpu pool
max_cpu_jobs == 1

\* --------------------------------------------------------------- values
NoFile == "-"
Contents == {"v1", "v2"}
\* the hex digest xxh3 prints on stderr for a stream
xxh3(v) == CASE v = "v1" -> "d1" [] v = "v2" -> "d2" [] OTHER -> "d0"
Digests == {"d1", "d2"}

\* a key s4://b/k1 is the sequence of the segments of its post-scheme string
K1 == <<"b", "k1">>
K2 == <<"b", "k2">>
KFar == <<"b", "far">>
KSpace == <<"b", "a b">>
KUnder == <<"_b", "k">>
Keys == {K1, K2, KFar, KSpace, KUnder}
\* the paths this node can hold a blob at
Paths == {K1, K2}
Uuids == 1..MaxJobs

\* the keys a client resolves the owner of: a bucket, a parent path or none,
\* and a last segment that is a partition number or a name
PickKeys == {<<b, l>> : b \in {"b", "c"}, l \in {"000", "001", "k1"}}
            \cup {<<b, "job", l>> : b \in {"b", "c"}, l \in {"000", "001", "k1"}}

\* servers(): the lines of ~/.s4.conf as address:port, a local address as 0.0.0.0
servers == <<"0.0.0.0:8080", "10.0.0.2:8080">>
Addresses == {"0.0.0.0:8080", "10.0.0.2:8080", "10.0.0.3:8080"}
\* the server lists a ~/.s4.conf of at most n lines gives
ServerLists(n) == UNION {[1..k -> Addresses] : k \in 1..n}

\* str.isdigit() stubbed to answer no for every segment
isdigit_never(seg) == FALSE

\* the segments of the keys that are all digits
Digits == {"000", "001"}
isdigit(seg) == seg \in Digits

SegCode(seg) ==
  CASE seg = "b" -> 2 [] seg = "k1" -> 4 [] seg = "k2" -> 6 [] seg = "far" -> 5
    [] seg = "a b" -> 8 [] seg = "_b" -> 10 [] seg = "k" -> 12
    [] seg = "000" -> 7 [] seg = "001" -> 9 [] seg = "c" -> 3 [] seg = "job" -> 11
    [] OTHER -> 1

\* stand-in for xxh3.oneshot_int: a fixed function of the whole string
RECURSIVE oneshot_int(_)
oneshot_int(url) ==
  IF url = <<>> THEN 0
  ELSE (oneshot_int(SubSeq(url, 1, Len(url) - 1)) * 31 + SegCode(url[Len(url)])) % 65536

\* pick_server over the server list srvs
pick(srvs, s3_url) ==
  LET seg == s3_url[Len(s3_url)]
      url == IF isdigit(seg) THEN <<seg>> ELSE s3_url
  IN srvs[(oneshot_int(url) % Len(srvs)) + 1]

pick_server(s3_url) == pick(servers, s3_url)

on_this_server(key) == pick_server(key) = "0.0.0.0:8080"

has_space(key) == \E i \in 1..Len(key) : key[i] \in {"a b"}
startswith_underscore(path) == path[1] \in {"_b"}

\* ---------------------------------------------------------------- state
VARIABLES
  blob,       \* [Paths -> content or NoFile]: the file at <path>
  sidecar,    \* [Paths -> [data, ro]]: the file at <path>.xxh3 and its mode
  tempfiles,  \* [Uuids -> [data, old]]: the files under _tempfiles/
  io_jobs,    \* [Uuids -> job record]: the job table
  futures,    \* [Uuids -> copier task]: the io pool's task of each job
  solo_q,     \* the solo pool's queue, head = the task being executed
  coros,      \* handler coroutines suspended at an await (not on solo)
  loop,       \* the event loop thread: idle, or inside an s4.delete
  gc,         \* the gc_expired_data coroutine
  issued,     \* uuids drawn so far; uuid n is the n-th job created
  expired,    \* the jobs 1..expired started more than max_timeout ago
  committed,  \* history: [Paths -> the commit no delete has followed]
  last        \* the response sent by the last step, if it sent one

vars == <<blob, sidecar, tempfiles, io_jobs, futures, solo_q, coros, loop, gc,
          issued, expired, committed, last>>
disk == <<blob, sidecar, tempfiles>>

NoSidecar == [data |-> NoFile, ro |-> FALSE]
NoTemp == [data |-> NoFile, old |-> FALSE]
NoJob == [kind |-> "none", path |-> <<>>, disk_checksum |-> ""]
NoFuture == [st |-> "none", cmd |-> "", path |-> <<>>, data |-> NoFile,
             exitcode |-> 0, stderr |-> ""]
\* task, fs: the result a map handler answers with is that of fs[task], and fs
\* are the futures of its request as the handler leaves them.
\* servers, server: the server list a client read and the owner pick_server
\* gave it for key
NoResp == [op |-> "", key |-> <<>>, uuid |-> 0, code |-> 0, err |-> "", checksum |-> "",
           exitcode |-> 0, stderr |-> "", job |-> NoJob, task |-> 0, fs |-> <<>>,
           servers |-> <<>>, server |-> ""]
\* fs, todo, done, timer, yielded: the futures of a map handler and the state
\* of its asyncio.as_completed iterator
NoCo == [op |-> "", pc |-> "", key |-> <<>>, uuid |-> 0, checksum |-> "", job |-> NoJob,
         src |-> NoFile, recursive |-> FALSE, ok |-> TRUE, err |-> "",
         exitcode |-> 0, stderr |-> "",
         fs |-> <<>>, todo |-> {}, done |-> <<>>, timer |-> "", yielded |-> 0]
LoopIdle == [files |-> <<>>, co |-> NoCo]
GcIdle == [pc |-> "sleep", todo |-> <<>>, uid |-> 0, temps |-> {}]
NoCommit == [data |-> NoFile, digest |-> "", acked |-> FALSE]

isfile(f) == f # NoFile
BlobAt(path) == IF path \in Paths THEN blob[path] ELSE NoFile
SidecarAt(path) == IF path \in Paths THEN sidecar[path] ELSE NoSidecar
\* a presence check that looks at the sidecar only
exists_sidecar_only(path) == isfile(SidecarAt(path).data)

\* exists(path)
exists(path) == isfile(BlobAt(path)) /\ isfile(SidecarAt(path).data)

Init ==
  /\ blob = [p \in Paths |-> NoFile]
  /\ sidecar = [p \in Paths |-> NoSidecar]
  /\ tempfiles = [t \in Uuids |-> NoTemp]
  /\ io_jobs = [u \in Uuids |-> NoJob]
  /\ futures = [u \in Uuids |-> NoFuture]
  /\ solo_q = <<>>
  /\ coros = {}
  /\ loop = LoopIdle
  /\ gc = GcIdle
  /\ issued = 0
  /\ expired = 0
  /\ committed = [p \in Paths |-> NoCommit]
  /\ last = NoResp

\* the status web.app answers when an exception leaves a handler
InternalServerError == 500

\* the response of a handler.
\* The response of a confirm is recorded with the job record the handler
\* popped, and its 200 with the values the handler compared.
Respond(co, code) ==
  last' = IF code = 200 /\ co.op \in {"confirm_put", "confirm_get"}
          THEN [NoResp EXCEPT !.op = co.op, !.uuid = co.uuid, !.code = code,
                              !.checksum = co.checksum, !.job = co.job,
                              !.exitcode = co.exitcode, !.stderr = co.stderr]
          ELSE [NoResp EXCEPT !.op = co.op, !.key = co.key, !.uuid = co.uuid, !.code = code,
                              !.err = co.err, !.job = co.job]
Silent == last' = NoResp

InFlight == Cardinality(coros) + Len(SelectSeq(solo_q, LAMBDA t : t.co.op # "gc"))
            + (IF loop = LoopIdle THEN 0 ELSE 1)
\* a request is dispatched when the loop thread is free; n bounds the
\* handlers in flight
Accept(n) == loop = LoopIdle /\ InFlight < n

Task(fn, co) == [fn |-> fn, step |-> 0, co |-> co]
submit_solo(fn, co) == solo_q' = Append(solo_q, Task(fn, co))

\* ------------------------------------------------------------ the files
BlobFile(path) == [f |-> "blob", path |-> path, temp_path |-> 0]
checksum_path(path) == [f |-> "sidecar", path |-> path, temp_path |-> 0]
TempFile(t) == [f |-> "temp", path |-> <<>>, temp_path |-> t]

\* os.remove of one file, a missing file ignored (s4.delete, rm -f)
RemovedBlob(b, file) ==
  [p \in Paths |-> IF file.f = "blob" /\ file.path = p THEN NoFile ELSE b[p]]
RemovedSidecar(s, file) ==
  [p \in Paths |-> IF file.f = "sidecar" /\ file.path = p THEN NoSidecar ELSE s[p]]
RemovedTemp(tf, file) ==
  [t \in Uuids |-> IF file.f = "temp" /\ file.temp_path = t THEN NoTemp ELSE tf[t]]

\* s4.delete(*files) as one step of the thread that calls it
delete(files) ==
  /\ blob' = [p \in Paths |-> IF BlobFile(p) \in files THEN NoFile ELSE blob[p]]
  /\ sidecar' = [p \in Paths |-> IF checksum_path(p) \in files THEN NoSidecar ELSE sidecar[p]]
  /\ tempfiles' = [t \in Uuids |-> IF TempFile(t) \in files THEN NoTemp ELSE tempfiles[t]]

\* ------------------------------------------------------- the job table
\* the temp_path of put job u is named after u: both are fresh random names
\* drawn for the same job
PutJob(path) == [NoJob EXCEPT !.kind = "put", !.path = path]
GetJob(c) == [NoJob EXCEPT !.kind = "get", !.disk_checksum = c]
\* the record new_uuid leaves: {'start': ...}
PartialJob == [NoJob EXCEPT !.kind = "partial"]
\* time.monotonic() - job['start'] > s4.max_timeout
Expired(u) == u <= expired

\* a finished copier task nothing refers to any more is dropped from the state
Refs(jobs, cs, q, lp) ==
  {u \in Uuids : jobs[u] # NoJob} \cup {co.uuid : co \in cs}
    \cup {q[i].co.uuid : i \in 1..Len(q)} \cup {lp.co.uuid}
Norm(f, jobs, cs, q, lp) ==
  [u \in Uuids |-> IF f[u].st = "done" /\ u \notin Refs(jobs, cs, q, lp)
                   THEN NoFuture ELSE f[u]]

\* start(s4.run) and submit_io: the copier is queued on the io pool
submit_io(f, u, cmd, path) ==
  [f EXCEPT ![u] = [NoFuture EXCEPT !.st = "queued", !.cmd = cmd, !.path = path]]
\* a started future that fires when the command is submitted
started_at_submit(u) == futures[u].st \in {"queued", "running", "done"}
\* the started future has fired once an io worker has begun the command
started(u) == futures[u].st \in {"running", "done"}

\* ------------------------------------------------------ prepare_put
\* prepare handlers that may still draw a uuid
Pending ==
  Len(SelectSeq(solo_q, LAMBDA t : t.co.op \in {"prepare_put", "prepare_get"} /\ t.co.uuid = 0))
    + Cardinality({co \in coros : co.op \in {"prepare_put", "prepare_get"} /\ co.pc = "solo_done"})

KeyRefused(key) == has_space(key) \/ ~on_this_server(key) \/ startswith_underscore(key)

PreparePutReq(key, n, m) ==
  /\ Accept(n)
  /\ IF KeyRefused(key)
     THEN /\ Respond([NoCo EXCEPT !.op = "prepare_put", !.key = key], InternalServerError)
          /\ UNCHANGED solo_q
     ELSE /\ issued + Pending < m
          /\ submit_solo("prepare_put", [NoCo EXCEPT !.op = "prepare_put", !.key = key,
                                           !.pc = "solo"])
          /\ Silent
  /\ UNCHANGED <<disk, io_jobs, futures, coros, loop, gc, issued, expired, committed>>

\* prepare_put(path) on the solo thread
prepare_put_ok(path) == ~isfile(blob[path]) /\ ~isfile(sidecar[path].data)

SoloDone(t, ok, err) ==
  /\ solo_q' = Tail(solo_q)
  /\ coros' = coros \cup {[t.co EXCEPT !.pc = "solo_done", !.ok = ok, !.err = err]}
SoloNextStep(t) ==
  /\ solo_q' = <<[t EXCEPT !.step = t.step + 1]>> \o Tail(solo_q)
  /\ coros' = coros

SoloPreparePut(t) ==
  /\ t.fn = "prepare_put"
  /\ IF prepare_put_ok(t.co.key)
     THEN /\ sidecar' = [sidecar EXCEPT ![t.co.key] = [data |-> "", ro |-> FALSE]]
          /\ SoloDone(t, TRUE, "")
     ELSE /\ sidecar' = sidecar
          /\ SoloDone(t, FALSE, "AssertionError")
  /\ UNCHANGED <<blob, tempfiles, io_jobs, futures, loop, gc, issued, expired, committed>>

\* 409, or new_uuid, the job record, submit_io of the receiver
PreparePutResume(co) ==
  /\ loop = LoopIdle /\ co \in coros
  /\ co.op = "prepare_put" /\ co.pc = "solo_done"
  /\ IF ~co.ok
     THEN /\ Respond(co, 409)
          /\ coros' = coros \ {co}
          /\ UNCHANGED <<io_jobs, futures, issued>>
     ELSE LET u == issued + 1 IN
          /\ issued' = u
          /\ io_jobs' = [io_jobs EXCEPT ![u] = PutJob(co.key)]
          /\ futures' = submit_io(futures, u, "recv", <<>>)
          /\ coros' = (coros \ {co}) \cup {[co EXCEPT !.pc = "started", !.uuid = u]}
          /\ Silent
  /\ UNCHANGED <<disk, solo_q, loop, gc, expired, committed>>

\* await started; return 200 with [uuid, port] (prepare_put) or uuid (prepare_get)
StartedResume(co) ==
  /\ loop = LoopIdle /\ co \in coros
  /\ co.pc = "started" /\ started(co.uuid)
  /\ Respond(co, 200)
  /\ coros' = coros \ {co}
  /\ futures' = Norm(futures, io_jobs, coros', solo_q, loop)
  /\ UNCHANGED <<disk, io_jobs, solo_q, loop, gc, issued, expired, committed>>

\* ----------------------------------------------------------- io pool
Running == Cardinality({u \in Uuids : futures[u].st = "running"})
           + Cardinality({co \in coros : co.pc = "io_running"})

\* an io worker begins the command: the shell opens its files
IoStart(u) ==
  /\ futures[u].st = "queued" /\ Running < max_io_jobs
  /\ futures' = [futures EXCEPT ![u].st = "running",
                                ![u].data = IF futures[u].cmd = "send"
                                            THEN BlobAt(futures[u].path) ELSE NoFile]
  /\ tempfiles' = IF futures[u].cmd = "recv"
                  THEN [tempfiles EXCEPT ![u] = [data |-> "", old |-> FALSE]]
                  ELSE tempfiles
  /\ Silent
  /\ UNCHANGED <<blob, sidecar, io_jobs, solo_q, coros, loop, gc, issued, expired, committed>>

Finished(u, exitcode, stderr) ==
  futures' = Norm([futures EXCEPT ![u].st = "done", ![u].exitcode = exitcode,
                                  ![u].stderr = stderr, ![u].data = NoFile],
                  io_jobs, coros, solo_q, loop)

\* recv PORT | xxh3 --stream > temp_path: the client streams v
RecvDone(u, v) ==
  /\ futures[u].st = "running" /\ futures[u].cmd = "recv"
  /\ Finished(u, 0, xxh3(v))
  /\ tempfiles' = IF isfile(tempfiles[u].data)
                  THEN [tempfiles EXCEPT ![u] = [data |-> v, old |-> FALSE]]
                  ELSE tempfiles
  /\ Silent
  /\ UNCHANGED <<blob, sidecar, io_jobs, solo_q, coros, loop, gc, issued, expired, committed>>

\* < path xxh3 --stream | send REMOTE PORT
SendDone(u) ==
  /\ futures[u].st = "running" /\ futures[u].cmd = "send"
  /\ isfile(futures[u].data)
  /\ Finished(u, 0, xxh3(futures[u].data))
  /\ Silent
  /\ UNCHANGED <<disk, io_jobs, solo_q, coros, loop, gc, issued, expired, committed>>

\* the copier exits nonzero: no peer, a timeout, a missing input file
CopierFail(u) ==
  /\ futures[u].st = "running"
  /\ Finished(u, 1, "")
  /\ Silent
  /\ UNCHANGED <<disk, io_jobs, solo_q, coros, loop, gc, issued, expired, committed>>

\* ------------------------------------------------ the loop's s4.delete
\* the except branch of a handler: s4.delete(...) on the loop thread, then raise
LoopDelete(co, files) == loop' = [files |-> files, co |-> co]

LoopDeleteStep ==
  /\ loop # LoopIdle
  /\ blob' = RemovedBlob(blob, Head(loop.files))
  /\ sidecar' = RemovedSidecar(sidecar, Head(loop.files))
  /\ tempfiles' = RemovedTemp(tempfiles, Head(loop.files))
  /\ IF Len(loop.files) = 1
     THEN /\ loop' = LoopIdle
          /\ Respond(loop.co, InternalServerError)
          /\ futures' = Norm(futures, io_jobs, coros, solo_q, loop')
     ELSE /\ loop' = [loop EXCEPT !.files = Tail(loop.files)]
          /\ Silent
          /\ futures' = futures
  /\ UNCHANGED <<io_jobs, solo_q, coros, gc, issued, expired, committed>>

\* ------------------------------------------------------ confirm_put
\* s4.delete(job['path'], job['temp_path'], checksum_path(job['path']))
JobFiles(co) == <<BlobFile(co.job.path), TempFile(co.uuid), checksum_path(co.job.path)>>

\* confirm_put_handler from the await of job['future'] on
ConfirmPutAfterFuture(co, cs) ==
  LET result == futures[co.uuid]
      c == [co EXCEPT !.exitcode = result.exitcode, !.stderr = result.stderr]
  IN IF co.job.kind # "put"
     THEN \* job['path'] raises KeyError, in the try or in the except branch
          /\ Respond([co EXCEPT !.err = "KeyError"], InternalServerError)
          /\ coros' = cs
          /\ futures' = Norm(futures, io_jobs', cs, solo_q, loop)
          /\ UNCHANGED <<disk, solo_q, loop>>
     ELSE IF result.exitcode # 0 \/ co.checksum # result.stderr
     THEN \* an assert fails
          /\ LoopDelete([co EXCEPT !.err = "AssertionError"], JobFiles(co))
          /\ Silent
          /\ coros' = cs
          /\ futures' = futures
          /\ UNCHANGED <<disk, solo_q>>
     ELSE /\ submit_solo("confirm_put", [c EXCEPT !.pc = "solo"])
          /\ Silent
          /\ coros' = cs
          /\ futures' = futures
          /\ UNCHANGED <<disk, loop>>

\* a confirm_put that swallows the KeyError of io_jobs.pop and answers 200
ConfirmPutReqSwallowing(u, checksum, n) ==
  LET co == [NoCo EXCEPT !.op = "confirm_put", !.uuid = u, !.checksum = checksum,
                         !.job = io_jobs[u]]
  IN /\ Accept(n)
     /\ UNCHANGED <<gc, issued, expired, committed>>
     /\ IF io_jobs[u] = NoJob
        THEN /\ Respond(co, 200)
             /\ UNCHANGED <<disk, io_jobs, futures, solo_q, coros, loop>>
        ELSE /\ io_jobs' = [io_jobs EXCEPT ![u] = NoJob]
             /\ IF io_jobs[u].kind = "partial"
                THEN \* job['future'] raises KeyError
                     /\ Respond([co EXCEPT !.err = "KeyError"], InternalServerError)
                     /\ futures' = Norm(futures, io_jobs', coros, solo_q, loop)
                     /\ UNCHANGED <<disk, solo_q, coros, loop>>
                ELSE IF futures[u].st # "done"
                THEN /\ coros' = coros \cup {[co EXCEPT !.pc = "future"]}
                     /\ Silent
                     /\ UNCHANGED <<disk, futures, solo_q, loop>>
                ELSE ConfirmPutAfterFuture(co, coros)

ConfirmPutReq(u, checksum, n) ==
  LET co == [NoCo EXCEPT !.op = "confirm_put", !.uuid = u, !.checksum = checksum,
                         !.job = io_jobs[u]]
  IN /\ Accept(n)
     /\ UNCHANGED <<gc, issued, expired, committed>>
     /\ IF io_jobs[u] = NoJob
        THEN \* io_jobs.pop raises KeyError; the except branch finds job unbound
             /\ Respond([co EXCEPT !.err = "KeyError"], InternalServerError)
             /\ UNCHANGED <<disk, io_jobs, futures, solo_q, coros, loop>>
        ELSE /\ io_jobs' = [io_jobs EXCEPT ![u] = NoJob]
             /\ IF io_jobs[u].kind = "partial"
                THEN \* job['future'] raises KeyError
                     /\ Respond([co EXCEPT !.err = "KeyError"], InternalServerError)
                     /\ futures' = Norm(futures, io_jobs', coros, solo_q, loop)
                     /\ UNCHANGED <<disk, solo_q, coros, loop>>
                ELSE IF futures[u].st # "done"
                THEN /\ coros' = coros \cup {[co EXCEPT !.pc = "future"]}
                     /\ Silent
                     /\ UNCHANGED <<disk, futures, solo_q, loop>>
                ELSE ConfirmPutAfterFuture(co, coros)

ConfirmPutFutureResume(co) ==
  /\ loop = LoopIdle /\ co \in coros
  /\ co.op = "confirm_put" /\ co.pc = "future" /\ futures[co.uuid].st = "done"
  /\ UNCHANGED <<io_jobs, gc, issued, expired, committed>>
  /\ ConfirmPutAfterFuture(co, coros \ {co})

\* confirm_put(path, temp_path, server_checksum) on the solo thread, one file
\* operation per step; any exception: s4.delete(path, temp_path, sidecar), raise
confirm_put_cleanup(t) ==
  /\ delete({BlobFile(t.co.job.path), TempFile(t.co.uuid), checksum_path(t.co.job.path)})
  /\ SoloDone(t, FALSE, "OSError")
  /\ committed' = committed

\* checksum_write: open(checksum_path(path), 'w') fails on a read-only file
\* unless the server runs as root
confirm_put_write(t) ==
  LET p == t.co.job.path IN
  \/ /\ sidecar' = [sidecar EXCEPT ![p].data = t.co.stderr]
     /\ UNCHANGED <<blob, tempfiles, committed>>
     /\ SoloNextStep(t)
  \/ /\ sidecar[p].ro
     /\ confirm_put_cleanup(t)

confirm_put_rename(t) ==
  LET p == t.co.job.path
      tmp == t.co.uuid
  IN IF isfile(tempfiles[tmp].data)
     THEN /\ blob' = [blob EXCEPT ![p] = tempfiles[tmp].data]
          /\ tempfiles' = [tempfiles EXCEPT ![tmp] = NoTemp]
          /\ UNCHANGED <<sidecar, committed>>
          /\ SoloNextStep(t)
     ELSE confirm_put_cleanup(t)

\* os.chmod(checksum_path(path), 0o444)
chmod_sidecar(t, p, cleanup) ==
  IF isfile(sidecar[p].data)
  THEN /\ sidecar' = [sidecar EXCEPT ![p].ro = TRUE]
       /\ UNCHANGED <<blob, tempfiles, committed>>
       /\ SoloNextStep(t)
  ELSE cleanup

\* the commit of a put that returns normally is recorded, unless an earlier
\* commit of the path is still on record
Commit(p, digest) ==
  committed' = IF committed[p] = NoCommit
               THEN [committed EXCEPT ![p] = [data |-> blob[p], digest |-> digest,
                                              acked |-> FALSE]]
               ELSE committed

\* os.chmod(path, 0o444)
chmod_blob(t, p, digest, cleanup) ==
  IF isfile(blob[p])
  THEN /\ UNCHANGED disk
       /\ Commit(p, digest)
       /\ SoloDone(t, TRUE, "")
  ELSE cleanup

\* a confirm_put that renames the temp file before it writes the sidecar
SoloConfirmPutRenameFirst(t) ==
  /\ t.fn = "confirm_put"
  /\ CASE t.step = 0 -> confirm_put_rename(t)
       [] t.step = 1 -> confirm_put_write(t)
       [] t.step = 2 -> chmod_sidecar(t, t.co.job.path, confirm_put_cleanup(t))
       [] OTHER -> chmod_blob(t, t.co.job.path, t.co.stderr, confirm_put_cleanup(t))
  /\ UNCHANGED <<io_jobs, futures, loop, gc, issued, expired>>

SoloConfirmPut(t) ==
  /\ t.fn = "confirm_put"
  /\ CASE t.step = 0 -> confirm_put_write(t)
       [] t.step = 1 -> confirm_put_rename(t)
       [] t.step = 2 -> chmod_sidecar(t, t.co.job.path, confirm_put_cleanup(t))
       [] OTHER -> chmod_blob(t, t.co.job.path, t.co.stderr, confirm_put_cleanup(t))
  /\ UNCHANGED <<io_jobs, futures, loop, gc, issued, expired>>

\* the 200 of a put acknowledges the commit on record for the path
Acked(p) ==
  committed' = IF committed[p] = NoCommit THEN committed
               ELSE [committed EXCEPT ![p].acked = TRUE]

ConfirmPutResume(co) ==
  /\ loop = LoopIdle /\ co \in coros
  /\ co.op = "confirm_put" /\ co.pc = "solo_done"
  /\ coros' = coros \ {co}
  /\ IF co.ok
     THEN /\ Respond(co, 200)
          /\ Acked(co.job.path)
          /\ futures' = Norm(futures, io_jobs, coros', solo_q, loop)
          /\ UNCHANGED loop
     ELSE /\ LoopDelete(co, JobFiles(co))
          /\ Silent
          /\ UNCHANGED <<futures, committed>>
  /\ UNCHANGED <<disk, io_jobs, solo_q, gc, issued, expired>>

\* ------------------------------------------------------ confirm_get
\* a confirm_get that does not compare the client's digest
ConfirmGetIgnoringClient(co, cs) ==
  LET result == futures[co.uuid]
      c == [co EXCEPT !.exitcode = result.exitcode, !.stderr = result.stderr]
      fine == /\ result.exitcode = 0
              /\ co.job.kind = "get"
              /\ co.job.disk_checksum = result.stderr
  IN /\ Respond(c, IF fine THEN 200 ELSE InternalServerError)
     /\ coros' = cs
     /\ futures' = Norm(futures, io_jobs', cs, solo_q, loop)

\* confirm_get_handler from the await of job['future'] on
ConfirmGetAfterFuture(co, cs) ==
  LET result == futures[co.uuid]
      c == [co EXCEPT !.exitcode = result.exitcode, !.stderr = result.stderr]
      fine == /\ result.exitcode = 0
              /\ co.job.kind = "get"
              /\ co.job.disk_checksum = co.checksum
              /\ co.checksum = result.stderr
  IN /\ Respond(c, IF fine THEN 200 ELSE InternalServerError)
     /\ coros' = cs
     /\ futures' = Norm(futures, io_jobs', cs, solo_q, loop)

ConfirmGetReq(u, checksum, n) ==
  LET co == [NoCo EXCEPT !.op = "confirm_get", !.uuid = u, !.checksum = checksum,
                         !.job = io_jobs[u]]
  IN /\ Accept(n)
     /\ UNCHANGED <<disk, solo_q, loop, gc, issued, expired, committed>>
     /\ IF io_jobs[u] = NoJob
        THEN /\ Respond(co, InternalServerError)
             /\ UNCHANGED <<io_jobs, futures, coros>>
        ELSE /\ io_jobs' = [io_jobs EXCEPT ![u] = NoJob]
             /\ IF io_jobs[u].kind = "partial"
                THEN /\ Respond(co, InternalServerError)
                     /\ futures' = Norm(futures, io_jobs', coros, solo_q, loop)
                     /\ UNCHANGED coros
                ELSE IF futures[u].st # "done"
                THEN /\ coros' = coros \cup {[co EXCEPT !.pc = "future"]}
                     /\ Silent
                     /\ UNCHANGED futures
                ELSE ConfirmGetAfterFuture(co, coros)

ConfirmGetFutureResume(co) ==
  /\ loop = LoopIdle /\ co \in coros
  /\ co.op = "confirm_get" /\ co.pc = "future" /\ futures[co.uuid].st = "done"
  /\ UNCHANGED <<disk, io_jobs, solo_q, loop, gc, issued, expired, committed>>
  /\ ConfirmGetAfterFuture(co, coros \ {co})

\* ------------------------------------------------------ prepare_get
PrepareGetReq(key, n, m) ==
  /\ Accept(n)
  /\ IF ~on_this_server(key)
     THEN /\ Respond([NoCo EXCEPT !.op = "prepare_get", !.key = key], InternalServerError)
          /\ UNCHANGED solo_q
     ELSE /\ issued + Pending < m
          /\ submit_solo("exists", [NoCo EXCEPT !.op = "prepare_get", !.key = key,
                                      !.pc = "solo"])
          /\ Silent
  /\ UNCHANGED <<disk, io_jobs, futures, coros, loop, gc, issued, expired, committed>>

\* exists(path) on the solo thread, for prepare_get and eval
SoloExists(t) ==
  /\ t.fn = "exists"
  /\ SoloDone(t, exists(t.co.key), "")
  /\ UNCHANGED <<disk, io_jobs, futures, loop, gc, issued, expired, committed>>

\* exists answered: 404, or new_uuid, submit_io of the sender, submit_solo(checksum_read)
PrepareGetResume(co) ==
  /\ loop = LoopIdle /\ co \in coros
  /\ co.op = "prepare_get" /\ co.pc = "solo_done"
  /\ IF ~co.ok
     THEN /\ Respond(co, 404)
          /\ coros' = coros \ {co}
          /\ UNCHANGED <<io_jobs, futures, solo_q, issued>>
     ELSE LET u == issued + 1 IN
          /\ issued' = u
          /\ io_jobs' = [io_jobs EXCEPT ![u] = PartialJob]
          /\ futures' = submit_io(futures, u, "send", co.key)
          /\ coros' = coros \ {co}
          /\ submit_solo("checksum_read", [co EXCEPT !.pc = "solo", !.uuid = u])
          /\ Silent
  /\ UNCHANGED <<disk, loop, gc, expired, committed>>

\* checksum_read(path) on the solo thread
SoloChecksumRead(t) ==
  /\ t.fn = "checksum_read"
  /\ solo_q' = Tail(solo_q)
  /\ coros' = coros \cup
       {IF isfile(SidecarAt(t.co.key).data)
        THEN [t.co EXCEPT !.pc = "read_done", !.ok = TRUE, !.stderr = SidecarAt(t.co.key).data]
        ELSE [t.co EXCEPT !.pc = "read_done", !.ok = FALSE, !.err = "FileNotFoundError"]}
  /\ UNCHANGED <<disk, io_jobs, futures, loop, gc, issued, expired, committed>>

\* the record is stored under the uuid; await started
PrepareGetStore(co) ==
  /\ loop = LoopIdle /\ co \in coros
  /\ co.op = "prepare_get" /\ co.pc = "read_done"
  /\ IF co.ok
     THEN /\ io_jobs' = [io_jobs EXCEPT ![co.uuid] = GetJob(co.stderr)]
          /\ coros' = (coros \ {co}) \cup {[co EXCEPT !.pc = "started", !.stderr = ""]}
          /\ Silent
          /\ futures' = futures
     ELSE /\ Respond([co EXCEPT !.uuid = 0], InternalServerError)
          /\ coros' = coros \ {co}
          /\ io_jobs' = io_jobs
          /\ futures' = Norm(futures, io_jobs, coros', solo_q, loop)
  /\ UNCHANGED <<disk, solo_q, loop, gc, issued, expired, committed>>

\* ----------------------------------------------------------- delete
Prefixes == Paths
\* prefix* matches the path: the prefix is the path or a directory above it
Matches(prefix, path) ==
  Len(prefix) <= Len(path) /\ SubSeq(path, 1, Len(prefix)) = prefix

DeleteReq(prefix, recursive, n) ==
  /\ Accept(n)
  /\ recursive \/ prefix \in Paths
  /\ submit_solo("rm", [NoCo EXCEPT !.op = "delete", !.key = prefix, !.pc = "solo",
                                      !.recursive = recursive])
  /\ Silent
  /\ UNCHANGED <<disk, io_jobs, futures, coros, loop, gc, issued, expired, committed>>

\* an rm that removes the blob and leaves its sidecar
SoloRmBlobOnly(t) ==
  /\ t.fn = "rm"
  /\ delete({BlobFile(t.co.key)})
  /\ committed' = [committed EXCEPT ![t.co.key] = NoCommit]
  /\ SoloDone(t, TRUE, "")
  /\ UNCHANGED <<io_jobs, futures, loop, gc, issued, expired>>

\* rm -rf prefix* / rm -f prefix prefix.xxh3 on the solo thread
SoloRm(t) ==
  /\ t.fn = "rm"
  /\ LET gone == IF t.co.recursive THEN {p \in Paths : Matches(t.co.key, p)} ELSE {t.co.key}
     IN /\ delete({BlobFile(p) : p \in gone} \cup {checksum_path(p) : p \in gone})
        /\ committed' = [p \in Paths |-> IF p \in gone THEN NoCommit ELSE committed[p]]
  /\ SoloDone(t, TRUE, "")
  /\ UNCHANGED <<io_jobs, futures, loop, gc, issued, expired>>

DeleteResume(co) ==
  /\ loop = LoopIdle /\ co \in coros
  /\ co.op = "delete" /\ co.pc = "solo_done"
  /\ Respond(co, 200)
  /\ coros' = coros \ {co}
  /\ UNCHANGED <<disk, io_jobs, futures, solo_q, loop, gc, issued, expired, committed>>

\* -------------------------------------------------------- local_put
\* src: the content of the client's file at temp_path, NoFile if there is none
LocalPutReq(key, src, n) ==
  /\ Accept(n)
  /\ IF KeyRefused(key)
     THEN /\ Respond([NoCo EXCEPT !.op = "local_put", !.key = key], InternalServerError)
          /\ UNCHANGED solo_q
     ELSE /\ submit_solo("local_put", [NoCo EXCEPT !.op = "local_put", !.key = key,
                                         !.pc = "solo", !.src = src])
          /\ Silent
  /\ UNCHANGED <<disk, io_jobs, futures, coros, loop, gc, issued, expired, committed>>

\* the asserts, then < temp_path xxh3 | tr -d "\n" > sidecar: the redirect
\* creates the sidecar even when temp_path cannot be read
local_put_hash(t) ==
  LET p == t.co.key IN
  IF ~prepare_put_ok(p)
  THEN /\ UNCHANGED disk
       /\ SoloDone(t, FALSE, "AssertionError")
  ELSE IF ~isfile(t.co.src)
  THEN /\ sidecar' = [sidecar EXCEPT ![p] = [data |-> "", ro |-> FALSE]]
       /\ UNCHANGED <<blob, tempfiles>>
       /\ SoloDone(t, FALSE, "Exception")
  ELSE /\ sidecar' = [sidecar EXCEPT ![p] = [data |-> xxh3(t.co.src), ro |-> FALSE]]
       /\ UNCHANGED <<blob, tempfiles>>
       /\ SoloNextStep(t)

local_put_rename(t) ==
  /\ blob' = [blob EXCEPT ![t.co.key] = t.co.src]
  /\ UNCHANGED <<sidecar, tempfiles>>
  /\ SoloNextStep(t)

local_put_raise(t) ==
  /\ UNCHANGED <<disk, committed>>
  /\ SoloDone(t, FALSE, "OSError")

SoloLocalPut(t) ==
  /\ t.fn = "local_put"
  /\ CASE t.step = 0 -> local_put_hash(t) /\ UNCHANGED committed
       [] t.step = 1 -> local_put_rename(t) /\ UNCHANGED committed
       [] t.step = 2 -> chmod_sidecar(t, t.co.key, local_put_raise(t))
       [] OTHER -> chmod_blob(t, t.co.key, xxh3(t.co.src), local_put_raise(t))
  /\ UNCHANGED <<io_jobs, futures, loop, gc, issued, expired>>

LocalPutResume(co) ==
  /\ loop = LoopIdle /\ co \in coros
  /\ co.op = "local_put" /\ co.pc = "solo_done"
  /\ Respond(co, IF co.ok THEN 200 ELSE IF co.err = "AssertionError" THEN 409
                 ELSE InternalServerError)
  /\ IF co.ok THEN Acked(co.key) ELSE UNCHANGED committed
  /\ coros' = coros \ {co}
  /\ UNCHANGED <<disk, io_jobs, futures, solo_q, loop, gc, issued, expired>>

\* ------------------------------------------------------------- eval
EvalReq(key, n) ==
  /\ Accept(n)
  /\ IF ~on_this_server(key)
     THEN /\ Respond([NoCo EXCEPT !.op = "eval", !.key = key], InternalServerError)
          /\ UNCHANGED solo_q
     ELSE /\ submit_solo("exists", [NoCo EXCEPT !.op = "eval", !.key = key, !.pc = "solo"])
          /\ Silent
  /\ UNCHANGED <<disk, io_jobs, futures, coros, loop, gc, issued, expired, committed>>

\* exists answered: 404, or submit_io(s4.run, '< path cmd | head -n 1000')
EvalResume(co) ==
  /\ loop = LoopIdle /\ co \in coros
  /\ co.op = "eval" /\ co.pc = "solo_done"
  /\ IF ~co.ok
     THEN /\ Respond(co, 404)
          /\ coros' = coros \ {co}
     ELSE /\ Silent
          /\ coros' = (coros \ {co}) \cup {[co EXCEPT !.pc = "io_queued"]}
  /\ UNCHANGED <<disk, io_jobs, futures, solo_q, loop, gc, issued, expired, committed>>

EvalStart(co) ==
  /\ co \in coros /\ co.pc = "io_queued" /\ Running < max_io_jobs
  /\ coros' = (coros \ {co}) \cup {[co EXCEPT !.pc = "io_running", !.src = BlobAt(co.key)]}
  /\ Silent
  /\ UNCHANGED <<disk, io_jobs, futures, solo_q, loop, gc, issued, expired, committed>>

\* the command ends: nonzero when the blob could not be opened or cmd failed
EvalDone(co, exitcode) ==
  /\ co \in coros /\ co.pc = "io_running"
  /\ exitcode = 0 => isfile(co.src)
  /\ coros' = (coros \ {co}) \cup {[co EXCEPT !.pc = "io_done", !.exitcode = exitcode, !.src = NoFile]}
  /\ Silent
  /\ UNCHANGED <<disk, io_jobs, futures, solo_q, loop, gc, issued, expired, committed>>

\* assert result['exitcode'] == 0, result
EvalRespond(co) ==
  /\ loop = LoopIdle /\ co \in coros
  /\ co.op = "eval" /\ co.pc = "io_done"
  /\ Respond(co, IF co.exitcode = 0 THEN 200 ELSE InternalServerError)
  /\ coros' = coros \ {co}
  /\ UNCHANGED <<disk, io_jobs, futures, solo_q, loop, gc, issued, expired, committed>>

\* ------------------------------------------------------------ the GC
GcCo(path, u) == [NoCo EXCEPT !.op = "gc", !.key = path, !.uuid = u]

\* list(io_jobs.items()): the records in insertion order, from uuid u on
RECURSIVE items(_)
items(u) ==
  IF u > MaxJobs THEN <<>>
  ELSE (IF io_jobs[u] # NoJob THEN <<[uid |-> u, path |-> io_jobs[u].path]>> ELSE <<>>)
       \o items(u + 1)

\* the iterations of the sweep that run without an await: a record that has
\* not expired is skipped, an expired one without 'path' (KeyError ignored)
\* is popped; the scan stops at an expired put job
RECURSIVE GcSkip(_)
GcSkip(todo) ==
  IF todo = <<>> THEN <<>>
  ELSE IF Expired(Head(todo).uid) /\ Head(todo).path # <<>> THEN todo
  ELSE GcSkip(Tail(todo))
GcPopped(todo) ==
  {todo[i].uid : i \in {j \in 1..(Len(todo) - Len(GcSkip(todo))) :
                          Expired(todo[j].uid) /\ todo[j].path = <<>>}}

\* the sweep from the head of todo up to its next await: the solo delete of
\* an expired put job, or the find of stale temp files
GcScan(todo) ==
  LET rest == GcSkip(todo) IN
  /\ io_jobs' = [u \in Uuids |-> IF u \in GcPopped(todo) THEN NoJob ELSE io_jobs[u]]
  /\ futures' = Norm(futures, io_jobs', coros, solo_q, loop)
  /\ IF rest = <<>>
     THEN /\ gc' = [GcIdle EXCEPT !.pc = "find"]
          /\ solo_q' = solo_q
     ELSE /\ gc' = [GcIdle EXCEPT !.pc = "wait", !.todo = Tail(rest), !.uid = Head(rest).uid]
          /\ submit_solo("gc_delete", GcCo(Head(rest).path, Head(rest).uid))

\* gc_expired_data is called: for uid, job in list(io_jobs.items())
GcStart ==
  /\ loop = LoopIdle /\ gc.pc = "sleep"
  /\ GcScan(items(1))
  /\ Silent
  /\ UNCHANGED <<disk, coros, loop, issued, expired, committed>>

\* a sweep that deletes the temp file of an expired job and leaves its sidecar
SoloGcDeleteTempOnly(t) ==
  /\ t.fn = "gc_delete"
  /\ delete({TempFile(t.co.uuid)})
  /\ solo_q' = Tail(solo_q)
  /\ gc' = [gc EXCEPT !.pc = "job_done"]
  /\ UNCHANGED <<io_jobs, futures, coros, loop, issued, expired, committed>>

\* s4.delete(checksum_path(job['path']), job['temp_path']) on the solo thread
SoloGcDelete(t) ==
  /\ t.fn = "gc_delete"
  /\ delete({checksum_path(t.co.key), TempFile(t.co.uuid)})
  /\ solo_q' = Tail(solo_q)
  /\ gc' = [gc EXCEPT !.pc = "job_done"]
  /\ UNCHANGED <<io_jobs, futures, coros, loop, issued, expired, committed>>

\* io_jobs.pop(uid, None), and the sweep goes on
GcJobResume ==
  /\ loop = LoopIdle /\ gc.pc = "job_done"
  /\ LET popped == [io_jobs EXCEPT ![gc.uid] = NoJob]
         rest == GcSkip(gc.todo)
     IN /\ io_jobs' = [u \in Uuids |-> IF u \in GcPopped(gc.todo) THEN NoJob ELSE popped[u]]
        /\ futures' = Norm(futures, io_jobs', coros, solo_q, loop)
        /\ IF rest = <<>>
           THEN /\ gc' = [GcIdle EXCEPT !.pc = "find"]
                /\ solo_q' = solo_q
           ELSE /\ gc' = [GcIdle EXCEPT !.pc = "wait", !.todo = Tail(rest), !.uid = Head(rest).uid]
                /\ submit_solo("gc_delete", GcCo(Head(rest).path, Head(rest).uid))
  /\ Silent
  /\ UNCHANGED <<disk, coros, loop, issued, expired, committed>>

\* the temp files of gc.temps, the next one handed to solo: s4.delete(path)
GcNextTemp(temps) ==
  IF temps = {}
  THEN /\ gc' = GcIdle
       /\ solo_q' = solo_q
  ELSE LET tmp == CHOOSE x \in temps : \A y \in temps : x <= y IN
       /\ gc' = [GcIdle EXCEPT !.pc = "wait", !.temps = temps \ {tmp}]
       /\ submit_solo("gc_delete_temp", GcCo(<<>>, tmp))

\* find _tempfiles/ -type f -cmin +N has answered
GcFind ==
  /\ loop = LoopIdle /\ gc.pc = "find"
  /\ GcNextTemp({t \in Uuids : isfile(tempfiles[t].data) /\ tempfiles[t].old})
  /\ Silent
  /\ UNCHANGED <<disk, io_jobs, futures, coros, loop, issued, expired, committed>>

\* s4.delete(path) on the solo thread
SoloGcDeleteTemp(t) ==
  /\ t.fn = "gc_delete_temp"
  /\ delete({TempFile(t.co.uuid)})
  /\ solo_q' = Tail(solo_q)
  /\ gc' = [gc EXCEPT !.pc = "temp_done"]
  /\ UNCHANGED <<io_jobs, futures, coros, loop, issued, expired, committed>>

\* the sweep goes on with the next temp file, or sleeps
GcTempResume ==
  /\ loop = LoopIdle /\ gc.pc = "temp_done"
  /\ GcNextTemp(gc.temps)
  /\ Silent
  /\ UNCHANGED <<disk, io_jobs, futures, coros, loop, issued, expired, committed>>

\* ------------------------------------------------------------- time
\* time passes: the jobs up to n are now older than max_timeout
Tick(n) ==
  /\ expired < n /\ n <= issued
  /\ io_jobs[n] # NoJob \/ gc.uid = n \/ \E i \in 1..Len(gc.todo) : gc.todo[i].uid = n
  /\ expired' = n
  /\ Silent
  /\ UNCHANGED <<disk, io_jobs, futures, solo_q, coros, loop, gc, issued, committed>>

\* more than max_timeout and a minute pass: every job has expired and the
\* temp files now on disk are old enough for find -cmin
LongTick ==
  /\ \E t \in Uuids : isfile(tempfiles[t].data) /\ ~tempfiles[t].old
  /\ expired' = issued
  /\ tempfiles' = [t \in Uuids |-> IF isfile(tempfiles[t].data)
                                   THEN [tempfiles[t] EXCEPT !.old = TRUE] ELSE NoTemp]
  /\ Silent
  /\ UNCHANGED <<blob, sidecar, io_jobs, futures, solo_q, coros, loop, gc, issued, committed>>

\* ------------------------------------------------------ the solo pool
\* the one solo worker runs the next step of the task at the head of its queue
SoloStep ==
  /\ solo_q # <<>>
  /\ Silent
  /\ LET t == Head(solo_q) IN
       \/ SoloPreparePut(t)
       \/ SoloConfirmPut(t)
       \/ SoloExists(t)
       \/ SoloChecksumRead(t)
       \/ SoloRm(t)
       \/ SoloLocalPut(t)
       \/ SoloGcDelete(t)
       \/ SoloGcDeleteTemp(t)

Gc ==
  \/ GcStart
  \/ GcJobResume
  \/ GcFind
  \/ GcTempResume

Time ==
  \/ \E n \in Uuids : Tick(n)
  \/ LongTick

\* ------------------------------------------------- the put protocol
\* clients put and delete the keys; at most n handlers in flight, m jobs
PutRequest(keys, n, m) ==
  \/ \E key \in keys : PreparePutReq(key, n, m)
  \/ \E u \in 1..m, c \in Digests : ConfirmPutReq(u, c, n)

Rm(keys, n) ==
  \E prefix \in keys : DeleteReq(prefix, FALSE, n)

PutResume ==
  \E co \in coros :
    \/ PreparePutResume(co)
    \/ StartedResume(co)
    \/ ConfirmPutFutureResume(co)
    \/ ConfirmPutResume(co)

RmResume ==
  \E co \in coros : DeleteResume(co)

PutIo ==
  \/ \E u \in Uuids : IoStart(u)
  \/ \E u \in Uuids, v \in Contents : RecvDone(u, v)
  \/ \E u \in Uuids : CopierFail(u)

\* one key, every response awaited before the next request; the GC loop runs
Next ==
  \/ PutRequest({K1}, MaxHandlers, MaxJobs)
  \/ Rm({K1}, MaxHandlers)
  \/ PutResume
  \/ RmResume
  \/ LoopDeleteStep
  \/ SoloStep
  \/ PutIo
  \/ Gc
  \/ Time

Spec == Init /\ [][Next]_vars

\* one key, concurrent requests; the GC loop runs
NextRace ==
  \/ PutRequest({K1}, RaceHandlers, RaceJobs)
  \/ Rm({K1}, RaceHandlers)
  \/ PutResume
  \/ RmResume
  \/ LoopDeleteStep
  \/ SoloStep
  \/ PutIo
  \/ Gc
  \/ Time

SpecRace == Init /\ [][NextRace]_vars

\* two keys, no delete; the GC loop runs
NextSweep ==
  \/ PutRequest(Paths, MaxHandlers, SweepJobs)
  \/ PutResume
  \/ LoopDeleteStep
  \/ SoloStep
  \/ PutIo
  \/ Gc
  \/ Time

SpecSweep == Init /\ [][NextSweep]_vars

\* every key, owned or refused
NextKeys ==
  \/ PutRequest(Keys, MaxHandlers, KeysJobs)
  \/ Rm(Paths, MaxHandlers)
  \/ PutResume
  \/ RmResume
  \/ LoopDeleteStep
  \/ SoloStep
  \/ PutIo

SpecKeys == Init /\ [][NextKeys]_vars

\* ------------------------------------------------- the get protocol
PrepareGet(keys, n, m) ==
  \E key \in keys : PrepareGetReq(key, n, m)

ConfirmGet(n, m) ==
  \E u \in 1..m, c \in Digests : ConfirmGetReq(u, c, n)

GetResume ==
  \E co \in coros :
    \/ PrepareGetResume(co)
    \/ PrepareGetStore(co)
    \/ StartedResume(co)
    \/ ConfirmGetFutureResume(co)

GetIo ==
  \/ \E u \in Uuids : IoStart(u)
  \/ \E u \in Uuids : SendDone(u)
  \/ \E u \in Uuids : CopierFail(u)

Eval(keys, n) ==
  \/ \E key \in keys : EvalReq(key, n)
  \/ \E co \in coros : EvalResume(co)
  \/ \E co \in coros : EvalStart(co)
  \/ \E co \in coros, exitcode \in {0, 1} : EvalDone(co, exitcode)
  \/ \E co \in coros : EvalRespond(co)

LocalPut(keys, n) ==
  \/ \E key \in keys, src \in Contents : LocalPutReq(key, src, n)
  \/ \E co \in coros : LocalPutResume(co)

\* one key: prepare_get and eval check its presence while it is put and deleted
NextRead ==
  \/ PutRequest({K1}, ReadHandlers, ReadJobs)
  \/ Rm({K1}, ReadHandlers)
  \/ PrepareGet({K1}, ReadHandlers, ReadJobs)
  \/ Eval({K1}, ReadHandlers)
  \/ PutResume
  \/ RmResume
  \/ \E co \in coros : PrepareGetResume(co)
  \/ \E co \in coros : PrepareGetStore(co)
  \/ LoopDeleteStep
  \/ SoloStep
  \/ PutIo
  \/ \E u \in Uuids : SendDone(u)

SpecRead == Init /\ [][NextRead]_vars

\* one key: gets of a blob that is put locally, deleted and put again
NextGet ==
  \/ LocalPut({K1}, GetHandlers)
  \/ Rm({K1}, GetHandlers)
  \/ PrepareGet({K1}, GetHandlers, GetJobs)
  \/ ConfirmGet(GetHandlers, GetJobs)
  \/ GetResume
  \/ RmResume
  \/ SoloStep
  \/ GetIo

SpecGet == Init /\ [][NextGet]_vars

\* puts of two keys, and confirm_get requests that name their uuids
NextSlot ==
  \/ PutRequest(Paths, SlotHandlers, SlotJobs)
  \/ ConfirmGet(SlotHandlers, SlotJobs)
  \/ PutResume
  \/ \E co \in coros : ConfirmGetFutureResume(co)
  \/ LoopDeleteStep
  \/ SoloStep
  \/ PutIo

SpecSlot == Init /\ [][NextSlot]_vars

\* one key: a get and a delete of the blob in flight together
NextGetRm ==
  \/ LocalPut({K1}, GetRmHandlers)
  \/ Rm({K1}, GetRmHandlers)
  \/ PrepareGet({K1}, GetRmHandlers, GetRmJobs)
  \/ ConfirmGet(GetRmHandlers, GetRmJobs)
  \/ GetResume
  \/ RmResume
  \/ SoloStep
  \/ GetIo

SpecGetRm == Init /\ [][NextGetRm]_vars

\* ------------------------------------------------- map and map_to_n
\* a future of submit_cpu: the task queued, running or done on the cpu pool,
\* and whether the handler has called cancel() on the future
CpuFuture == [st |-> "queued", exitcode |-> 0, cancel |-> FALSE]
MapOps == {"map", "map_to_n"}
TimeoutStderr(op) == IF op = "map" THEN "map timeout" ELSE "map-to-n timeout"

MapRespond(co, code, task, exitcode, stderr, fs) ==
  last' = [NoResp EXCEPT !.op = co.op, !.code = code, !.task = task,
                         !.exitcode = exitcode, !.stderr = stderr, !.fs = fs]

\* the handler up to its first await: one submit_cpu per input key, then
\* asyncio.as_completed(fs, timeout=s4.timeout), which arms its timer when
\* there is a future to wait for
MapReq(op, k, n) ==
  /\ Accept(n)
  /\ LET co == [NoCo EXCEPT !.op = op, !.pc = "as_completed",
                            !.fs = [i \in 1..k |-> CpuFuture], !.todo = 1..k,
                            !.timer = IF k = 0 THEN "" ELSE "armed"]
     IN IF k = 0
        THEN /\ MapRespond(co, 200, 0, 0, "", <<>>)
             /\ coros' = coros
        ELSE /\ Silent
             /\ coros' = coros \cup {co}
  /\ UNCHANGED <<disk, io_jobs, futures, solo_q, loop, gc, issued, expired, committed>>

CpuRunning ==
  Cardinality({c \in [co : coros, i : 1..MapTasks] :
                 c.i <= Len(c.co.fs) /\ c.co.fs[c.i].st = "running"})

\* a cpu worker begins run_in_tempdir for task i, the first of the request
\* in the queue of the pool
CpuStart(co, i) ==
  /\ co \in coros /\ i \in 1..Len(co.fs)
  /\ co.fs[i].st = "queued" /\ CpuRunning < max_cpu_jobs
  /\ \A j \in 1..(i - 1) : co.fs[j].st # "queued"
  /\ coros' = (coros \ {co}) \cup {[co EXCEPT !.fs[i].st = "running"]}
  /\ Silent
  /\ UNCHANGED <<disk, io_jobs, futures, solo_q, loop, gc, issued, expired, committed>>

\* the command of task i exits; as_completed's _on_completion moves the
\* future from todo to the done queue unless the timer has emptied todo
CpuDone(co, i, exitcode) ==
  /\ co \in coros /\ i \in 1..Len(co.fs)
  /\ co.fs[i].st = "running"
  /\ coros' = (coros \ {co}) \cup
       {[co EXCEPT !.fs[i].st = "done", !.fs[i].exitcode = exitcode,
                   !.todo = co.todo \ {i},
                   !.done = IF i \in co.todo THEN Append(co.done, i) ELSE co.done,
                   !.timer = IF co.todo = {i} THEN "" ELSE co.timer]}
  /\ Silent
  /\ UNCHANGED <<disk, io_jobs, futures, solo_q, loop, gc, issued, expired, committed>>

\* s4.timeout has passed: _on_timeout puts one None per future left in todo
MapTimeout(co) ==
  /\ loop = LoopIdle /\ co \in coros
  /\ co.timer = "armed"
  /\ coros' = (coros \ {co}) \cup
       {[co EXCEPT !.timer = "fired", !.todo = {},
                   !.done = co.done \o [j \in 1..Cardinality(co.todo) |-> 0]]}
  /\ Silent
  /\ UNCHANGED <<disk, io_jobs, futures, solo_q, loop, gc, issued, expired, committed>>

\* for f in fs: f.cancel() -- a future that is done stays as it is
cancel(fs) ==
  [i \in 1..Len(fs) |-> IF fs[i].st = "done" THEN fs[i] ELSE [fs[i] EXCEPT !.cancel = TRUE]]

\* the handler goes on after result number co.yielded + 1 was fine: the
\* next turn of the for loop, or return 200
MapContinue(co, cs) ==
  IF co.yielded + 1 = Len(co.fs)
  THEN /\ MapRespond(co, 200, 0, 0, "", co.fs)
       /\ coros' = cs
  ELSE /\ Silent
       /\ coros' = cs \cup {[co EXCEPT !.pc = "as_completed", !.yielded = co.yielded + 1]}

\* a handler that answers 400 for a failed task without cancelling the others
MapNextNoCancel(co) ==
  /\ loop = LoopIdle /\ co \in coros
  /\ co.op \in MapOps /\ co.pc = "as_completed" /\ co.done # <<>>
  /\ LET f == Head(co.done)
         c == [co EXCEPT !.done = Tail(co.done)]
     IN IF f = 0
        THEN /\ MapRespond(co, 400, 0, 1, TimeoutStderr(co.op), co.fs)
             /\ coros' = coros \ {co}
        ELSE IF co.fs[f].exitcode # 0
        THEN /\ MapRespond(co, 400, f, co.fs[f].exitcode, "", co.fs)
             /\ coros' = coros \ {co}
        ELSE IF co.op = "map_to_n"
        THEN /\ Silent
             /\ coros' = (coros \ {co}) \cup {[c EXCEPT !.pc = "io_queued"]}
        ELSE MapContinue(c, coros \ {co})
  /\ UNCHANGED <<disk, io_jobs, futures, solo_q, loop, gc, issued, expired, committed>>

\* await f for the next f of as_completed: TimeoutError for a None, else the
\* result of the task; nonzero: cancel every future, 400 with the result
MapNext(co) ==
  /\ loop = LoopIdle /\ co \in coros
  /\ co.op \in MapOps /\ co.pc = "as_completed" /\ co.done # <<>>
  /\ LET f == Head(co.done)
         c == [co EXCEPT !.done = Tail(co.done)]
     IN IF f = 0
        THEN /\ MapRespond(co, 400, 0, 1, TimeoutStderr(co.op), co.fs)
             /\ coros' = coros \ {co}
        ELSE IF co.fs[f].exitcode # 0
        THEN /\ MapRespond(co, 400, f, co.fs[f].exitcode, "", cancel(co.fs))
             /\ coros' = coros \ {co}
        ELSE IF co.op = "map_to_n"
        THEN \* await submit_io(confirm_to_n, ...)
             /\ Silent
             /\ coros' = (coros \ {co}) \cup {[c EXCEPT !.pc = "io_queued"]}
        ELSE MapContinue(c, coros \ {co})
  /\ UNCHANGED <<disk, io_jobs, futures, solo_q, loop, gc, issued, expired, committed>>

\* an io worker runs confirm_to_n, s4 cp of every output file of the task:
\* it returns, or its assert on the exit code of s4 cp fails
ConfirmToNDone(co, ok) ==
  /\ co \in coros /\ co.op = "map_to_n" /\ co.pc = "io_queued"
  /\ Running < max_io_jobs
  /\ coros' = (coros \ {co}) \cup {[co EXCEPT !.pc = "io_done", !.ok = ok]}
  /\ Silent
  /\ UNCHANGED <<disk, io_jobs, futures, solo_q, loop, gc, issued, expired, committed>>

ConfirmToNResume(co) ==
  /\ loop = LoopIdle /\ co \in coros
  /\ co.op = "map_to_n" /\ co.pc = "io_done"
  /\ IF co.ok
     THEN MapContinue(co, coros \ {co})
     ELSE /\ MapRespond(co, InternalServerError, 0, 0, "", co.fs)
          /\ coros' = coros \ {co}
  /\ UNCHANGED <<disk, io_jobs, futures, solo_q, loop, gc, issued, expired, committed>>

Map(n) ==
  \/ \E op \in MapOps, k \in 0..MapTasks : MapReq(op, k, n)
  \/ \E co \in coros : MapNext(co)
  \/ \E co \in coros : MapTimeout(co)

Cpu ==
  \/ \E co \in coros, i \in 1..MapTasks : CpuStart(co, i)
  \/ \E co \in coros, i \in 1..MapTasks, exitcode \in {0, 1} : CpuDone(co, i, exitcode)

ConfirmToN ==
  \/ \E co \in coros, ok \in BOOLEAN : ConfirmToNDone(co, ok)
  \/ \E co \in coros : ConfirmToNResume(co)

\* map and map_to_n requests, their tasks on the cpu pool
NextMap ==
  \/ Map(MapHandlers)
  \/ Cpu
  \/ ConfirmToN

SpecMap == Init /\ [][NextMap]_vars

\* ------------------------------------------- puts that are abandoned
PreparePut(keys, n, m) ==
  \E key \in keys : PreparePutReq(key, n, m)

PreparePutSteps ==
  \E co \in coros : PreparePutResume(co) \/ StartedResume(co)

\* the steps of the handlers whose prepare_put was granted (ok), or refused
PreparePutStepsOf(ok) ==
  \E co \in coros : co.ok = ok /\ (PreparePutResume(co) \/ StartedResume(co))

\* two keys; clients prepare puts and never confirm them; the GC loop runs
NextReap ==
  \/ PreparePut(Paths, ReapHandlers, ReapJobs)
  \/ PreparePutSteps
  \/ SoloStep
  \/ PutIo
  \/ Gc
  \/ Time

\* the event loop runs every ready callback in turn, the solo worker and a
\* free io worker take the next queued task, the GC loop reschedules itself
\* every 5 seconds, and time passes; a receiver may wait for its client for ever
FairReap ==
  /\ \A ok \in BOOLEAN : WF_vars(PreparePutStepsOf(ok))
  /\ WF_vars(SoloStep)
  /\ WF_vars(\E u \in Uuids : IoStart(u))
  /\ WF_vars(Gc)
  /\ WF_vars(Time)

SpecReap == Init /\ [][NextReap]_vars /\ FairReap

\* ------------------------------------------------- the owner of a key
\* a client resolves the owner of a key under the server list of its ~/.s4.conf
PickServer(srvs, s3_url) ==
  /\ last' = [NoResp EXCEPT !.op = "pick_server", !.key = s3_url,
                            !.servers = srvs, !.server = pick(srvs, s3_url)]
  /\ UNCHANGED <<disk, io_jobs, futures, solo_q, coros, loop, gc, issued, expired, committed>>

NextPick == \E srvs \in ServerLists(MaxServers), s3_url \in PickKeys : PickServer(srvs, s3_url)

SpecPick == Init /\ [][NextPick]_vars

\* -------------------------------------------------------------- claims
\* the solo worker finishes the task at the head of its queue in this step
SoloFinishes(fn) ==
  /\ solo_q # <<>>
  /\ Head(solo_q).fn = fn
  /\ solo_q' = Tail(solo_q)

\* the handlers that are mid-execution
Handlers ==
  coros \cup {solo_q[i].co : i \in 1..Len(solo_q)} \cup (IF loop = LoopIdle THEN {} ELSE {loop.co})

\* C1: after a put of k was answered 200, and until a delete of k is executed,
\* every prepare_put(k) is refused and reserves nothing: its solo task leaves
\* the sidecar of k as it was.
C1_RefusedAfterPut ==
  [][\A p \in Paths :
       (committed[p].acked /\ SoloFinishes("prepare_put") /\ Head(solo_q).co.key = p)
         => sidecar'[p] = sidecar[p]]_vars

\* C2: a blob whose put was answered 200 keeps its content and its sidecar
\* digest in every later state until a delete of its key is executed.
C2_WriteOnce ==
  \A p \in Paths :
    committed[p].acked =>
      blob[p] = committed[p].data /\ sidecar[p].data = committed[p].digest

\* C3: confirm_put answers 200 only if the receiver exited 0 and reported the
\* client's digest c, and in the state of the 200 the blob exists at the job's
\* path, the sidecar holds c and the temp file is gone.
C3_ConfirmPut200 ==
  (last.op = "confirm_put" /\ last.code = 200) =>
    /\ last.exitcode = 0
    /\ last.stderr = last.checksum
    /\ isfile(blob[last.job.path])
    /\ sidecar[last.job.path].data = last.checksum
    /\ ~isfile(tempfiles[last.uuid].data)

\* C4: a confirm_put whose checksum differs from the receiver's digest, or
\* whose receiver exited nonzero, is answered non-200, and in the state of the
\* answer the job's path has no blob and no sidecar and its temp file is gone,
\* so that a prepare_put of the key that follows is granted.
C4_FailedConfirmReleases ==
  (last.op = "confirm_put" /\ last.err = "AssertionError") =>
    /\ last.code # 200
    /\ ~isfile(blob[last.job.path])
    /\ ~isfile(sidecar[last.job.path].data)
    /\ ~isfile(tempfiles[last.uuid].data)

\* C6: prepare_put of a key this node does not own, or with a space, or whose
\* path starts with '_', is answered 409.
C6_RefusedKey409 ==
  (last.op = "prepare_put" /\ KeyRefused(last.key)) => last.code = 409

\* C7: of the prepare_put handlers of one key that are in flight together and
\* past their solo task, at most one was granted the slot.
C7_OneGrant ==
  \A c1, c2 \in coros :
    (/\ c1 # c2
     /\ c1.op = "prepare_put" /\ c2.op = "prepare_put"
     /\ c1.key = c2.key
     /\ c1.pc \in {"solo_done", "started"} /\ c2.pc \in {"solo_done", "started"})
      => ~(c1.ok /\ c2.ok)

\* a put of path p is in flight: a put job record refers to p, or a handler of
\* a put of p is mid-execution
Reserved(p) ==
  \/ \E u \in Uuids : io_jobs[u].kind = "put" /\ io_jobs[u].path = p
  \/ \E co \in Handlers :
       /\ co.op \in {"prepare_put", "confirm_put", "local_put"}
       /\ co.key = p \/ co.job.path = p

\* C8: invariant I2: a blob has a sidecar, and a sidecar without a blob is the
\* slot of a put in flight.
C8_I2 ==
  \A p \in Paths :
    /\ isfile(blob[p]) => isfile(sidecar[p].data)
    /\ (isfile(sidecar[p].data) /\ ~isfile(blob[p])) => Reserved(p)

\* C5: confirm_get answers 200 only if the sender exited 0 and the digest
\* read from the sidecar at prepare_get, the digest the sender computed and
\* the client's digest are equal; otherwise the answer is an error.
C5_ConfirmGet200 ==
  (last.op = "confirm_get" /\ last.code = 200) =>
    /\ last.exitcode = 0
    /\ last.job.kind = "get"
    /\ last.job.disk_checksum = last.stderr
    /\ last.stderr = last.checksum

\* a get is confirmed with the digest of the blob that was put
C5_Confirmed ==
  /\ last.op = "confirm_get" /\ last.code = 200
  /\ last.checksum = "d1" /\ last.job.disk_checksum = "d1"

\* C9: a presence check (exists, as prepare_get and eval call it) that finds
\* the key present finds the blob together with a sidecar that holds a digest:
\* in no state is there a blob next to an empty sidecar.
C9_NoTornRead ==
  \A p \in Paths : exists(p) => (isfile(blob[p]) /\ sidecar[p].data \in Digests)

\* a presence check of prepare_get has found the committed key
C9_Present ==
  \E co \in coros :
    /\ co.op = "prepare_get" /\ co.pc = "solo_done" /\ co.ok
    /\ committed[co.key].acked

\* C10: when the blob or the sidecar of k is missing, the presence check of
\* prepare_get(k) answers false, and prepare_get then answers 404, creates no
\* job record and submits no sender.
C10_AbsentIs404 ==
  [][/\ (/\ SoloFinishes("exists")
         /\ Head(solo_q).co.op = "prepare_get"
         /\ ~isfile(blob[Head(solo_q).co.key]) \/ ~isfile(sidecar[Head(solo_q).co.key].data))
          => \A co \in coros' \ coros : ~co.ok
     /\ \A co \in coros \ coros' :
          (co.op = "prepare_get" /\ co.pc = "solo_done" /\ ~co.ok)
            => /\ last'.op = "prepare_get" /\ last'.code = 404
               /\ io_jobs' = io_jobs
               /\ futures' = futures]_vars

\* prepare_get of a key that is only the reserved slot of a put in flight
\* was answered 404
C10_SlotIs404 ==
  /\ last.op = "prepare_get" /\ last.code = 404
  /\ isfile(sidecar[last.key].data) /\ ~isfile(blob[last.key])
  /\ \E u \in Uuids : io_jobs[u].kind = "put" /\ io_jobs[u].path = last.key

\* C11: GC liveness: once prepare_put(k) was answered 200 with uuid u and no
\* confirm_put follows, a state is eventually reached in which k has no blob
\* and no sidecar, the temp file of u is gone and u is not in the job table.
C11_Reaped ==
  \A u \in Uuids, p \in Paths :
    (last.op = "prepare_put" /\ last.code = 200 /\ last.uuid = u /\ last.key = p)
      ~> (/\ io_jobs[u] = NoJob
          /\ ~isfile(tempfiles[u].data)
          /\ ~isfile(blob[p])
          /\ ~isfile(sidecar[p].data))

\* job 1 passed the started gate and was answered, its receiver still waits
\* for the client, and the sweep has removed its record, temp file and slot
C11_Swept ==
  /\ futures[1].st = "running" /\ coros = {} /\ solo_q = <<>>
  /\ expired >= 1 /\ io_jobs[1] = NoJob
  /\ ~isfile(tempfiles[1].data)
  /\ \A p \in Paths : ~isfile(sidecar[p].data) /\ ~isfile(blob[p])

\* C12: back-pressure: a prepare handler does not wait at the started gate
\* beyond the queue-wait deadline s4.timeout: when the copier has not begun by
\* then the handler has answered 429.  A job older than max_timeout (more than
\* s4.timeout) whose prepare_put still waits at the gate, its copier queued
\* behind a full io pool, contradicts it.
C12_AnsweredInTime ==
  \A co \in coros :
    (/\ co.op = "prepare_put" /\ co.pc = "started"
     /\ futures[co.uuid].st = "queued" /\ Running >= max_io_jobs)
      => ~Expired(co.uuid)

C14_EvalResponses ==
  [][\A co \in coros \ coros' :
       (co.op = "eval" /\ last'.op = "eval")
         => /\ (co.pc = "solo_done" /\ ~co.ok) => last'.code = 404
            /\ (co.pc = "io_done" /\ co.exitcode # 0) => last'.code = 400
            /\ (co.pc = "io_done" /\ co.exitcode = 0) => last'.code = 200
            /\ UNCHANGED <<blob, sidecar, io_jobs>>]_vars

\* C15: in map and map_to_n the first task observed to exit nonzero makes the
\* handler cancel every other task of the request and answer 400 with that
\* task's result; the answer is 200 only if every task completed with exit
\* code 0 before the deadline, and 400 with the synthetic timeout result when
\* the handler meets the deadline first.
C15_MapAnswers ==
  [][\A co \in coros \ coros' :
       (co.op \in MapOps /\ last'.op = co.op)
         => /\ last'.code = 200
                 => /\ \A i \in 1..Len(co.fs) : co.fs[i].st = "done" /\ co.fs[i].exitcode = 0
                    /\ co.timer # "fired"
            /\ (co.pc = "as_completed" /\ Head(co.done) = 0)
                 => /\ last'.code = 400 /\ last'.task = 0
                    /\ last'.exitcode = 1 /\ last'.stderr = TimeoutStderr(co.op)
            /\ (co.pc = "as_completed" /\ Head(co.done) # 0
                  /\ co.fs[Head(co.done)].exitcode # 0)
                 => /\ last'.code = 400 /\ last'.task = Head(co.done)
                    /\ last'.exitcode = co.fs[Head(co.done)].exitcode
                    /\ \A i \in 1..Len(co.fs) :
                         last'.fs[i].st = "done" \/ last'.fs[i].cancel]_vars

\* a map_to_n request was answered 400 with the result of a failed task while
\* another task of the request was still on the cpu pool, and was cancelled
C15_Cancelled ==
  /\ last.op = "map_to_n" /\ last.code = 400 /\ last.task # 0
  /\ last.exitcode # 0
  /\ \E i \in 1..Len(last.fs) : last.fs[i].cancel /\ last.fs[i].st = "running"

\* C16: under one server list, two keys whose last segment is the same
\* all-digit string resolve to the same server whatever their buckets and
\* parent paths, a key resolves to the same server every time, and the server
\* is an entry of the list.
C16_Colocated ==
  [][(last.op = "pick_server" /\ last'.op = "pick_server") =>
       /\ \E i \in 1..Len(last'.servers) : last'.server = last'.servers[i]
       /\ (/\ last'.servers = last.servers
           /\ \/ last'.key = last.key
              \/ /\ last.key[Len(last.key)] \in Digits
                 /\ last'.key[Len(last'.key)] = last.key[Len(last.key)])
          => last'.server = last.server]_vars
\* a partition resolved under a list of several servers, for a producer with
\* a parent path
C16_Partition ==
  /\ last.op = "pick_server" /\ Len(last.servers) = MaxServers
  /\ \A i, j \in 1..Len(last.servers) : i # j => last.servers[i] # last.servers[j]
  /\ last.key = <<"c", "job", "001">> /\ last.server = pick(last.servers, <<"b", "001">>)

\* C17: while a blob exists at the final path of a job, no step of its
\* confirm_put renames the temp file of the job over that blob.
C17_KeysImmutable ==
  [][\A p \in Paths :
       (/\ solo_q # <<>> /\ Head(solo_q).fn = "confirm_put"
        /\ Head(solo_q).co.job.path = p /\ isfile(blob[p]))
       => LET tmp == Head(solo_q).co.uuid
          IN ~(isfile(tempfiles[tmp].data) /\ ~isfile(tempfiles'[tmp].data) /\ isfile(blob'[p]))]_vars

\* C18: the uuid a prepare_put or a prepare_get answers with its 200 is a key
\* of the job table when the response is sent, the uuid a prepare draws was
\* not in the table, a key leaves the table only when a
\* confirm or the GC pops it, and the uuid a confirm answered for, with 200 or
\* with an error, is not in the table.
C18_JobRecord ==
  [][/\ (last'.op \in {"prepare_put", "prepare_get"} /\ last'.code = 200)
          => (io_jobs'[last'.uuid] # NoJob /\ futures'[last'.uuid].st # "none")
     /\ \A u \in Uuids :
          /\ (issued' # issued /\ u = issued') => (io_jobs[u] = NoJob /\ io_jobs'[u] # NoJob)
          /\ (io_jobs[u] # NoJob /\ io_jobs'[u] = NoJob) =>
                \/ \E co \in Handlers' : co.op \in {"confirm_put", "confirm_get"} /\ co.uuid = u
                \/ last'.op \in {"confirm_put", "confirm_get"} /\ last'.uuid = u
                \/ gc.pc # gc'.pc \/ gc.todo # gc'.todo
          /\ (last'.op \in {"confirm_put", "confirm_get"} /\ last'.uuid = u) => io_jobs'[u] = NoJob]_vars

C20_StartedFirst ==
  [][(last'.op \in {"prepare_put", "prepare_get"} /\ last'.code = 200)
       => futures[last'.uuid].st \in {"running", "done"}]_vars
\* the 200 of a prepare whose copier waited for the only io worker
C20_AfterTheWait ==
  /\ last.op \in {"prepare_put", "prepare_get"} /\ last.code = 200 /\ last.uuid = 2
  /\ futures[2].st = "running" /\ futures[1].st = "done" /\ io_jobs[1] # NoJob

\* C21: every step that creates, renames, chmods or deletes a blob or a
\* sidecar is a step of the solo worker on the task at the head of its queue.
C21_SingleWriter ==
  [][(blob' # blob \/ sidecar' # sidecar)
       => (solo_q # <<>> /\ solo_q' # solo_q /\ loop = LoopIdle /\ loop' = loop)]_vars

\* C22: the solo task of the GC for an expired job deletes the temp file of
\* the job, deletes the sidecar of the path of the job when it is empty, and
\* leaves every non-empty sidecar as it is.
C22_ReapKeepsCommitted ==
  [][SoloFinishes("gc_delete") =>
       LET t == Head(solo_q) IN
       /\ ~isfile(tempfiles'[t.co.uuid].data)
       /\ \A p \in Paths :
            IF isfile(sidecar[p].data) /\ sidecar[p].data # ""
            THEN sidecar'[p] = sidecar[p]
            ELSE p = t.co.key => ~isfile(sidecar'[p].data)]_vars

\* C23: with deletes of k in flight, prepare_get(k) answers 404 or 200, the
\* record of a 200 holds a digest read from the sidecar, and confirm_get
\* answers 200 only when the captured digest, the digest of the client and the
\* digest of the sender are equal and the sender exited with 0.
C23_GetNotCorrupted ==
  /\ last.op = "prepare_get" => last.code \in {200, 404}
  /\ (last.op = "prepare_get" /\ last.code = 200 /\ io_jobs[last.uuid] # NoJob)
       => (io_jobs[last.uuid].kind = "get" /\ io_jobs[last.uuid].disk_checksum \in Digests)
  /\ (last.op = "confirm_get" /\ last.code = 200)
       => (/\ last.job.disk_checksum \in Digests /\ last.exitcode = 0
           /\ last.checksum = last.job.disk_checksum /\ last.stderr = last.job.disk_checksum)

\* C24: the solo task of the sweep for a job whose record a confirm has
\* popped since the sweep listed the table leaves the sidecar of every
\* committed blob as it is.
C24_SweepSkipsConfirmed ==
  [][(SoloFinishes("gc_delete") /\ io_jobs[Head(solo_q).co.uuid] = NoJob)
       => \A p \in Paths :
            (isfile(blob[p]) /\ sidecar[p].data \in Digests) => sidecar'[p] = sidecar[p]]_vars

\* C25: at most one put job record of the job table refers to a path.
C25_OnePutPerPath ==
  \A u, v \in Uuids :
    (io_jobs[u].kind = "put" /\ io_jobs[v].kind = "put" /\ io_jobs[u].path = io_jobs[v].path)
      => u = v

\* C26: when no handler is mid-execution, every empty sidecar on disk is the
\* slot of a put job record that is in the job table.
C26_NoOrphanedSlot ==
  Handlers = {} =>
    \A p \in Paths :
      sidecar[p].data = "" => \E u \in Uuids : io_jobs[u].kind = "put" /\ io_jobs[u].path = p

\* C27: a confirm_put or a confirm_get whose uuid is not in the job table
\* answers an error and leaves the job table, the blobs, the sidecars and the
\* temp files as they are.
C27_UnknownUuid ==
  [][(last'.op \in {"confirm_put", "confirm_get"} /\ last'.job = NoJob)
       => (last'.code = InternalServerError /\ UNCHANGED <<io_jobs, blob, sidecar, tempfiles>>)]_vars
\* confirm_put was repeated after the commit it had answered 200 for, and the
\* committed blob and its sidecar are on disk
C27_RepeatedConfirm ==
  /\ last.op = "confirm_put" /\ last.code = InternalServerError /\ last.job = NoJob
  /\ \E p \in Paths : /\ committed[p].acked /\ blob[p] = committed[p].data
                       /\ sidecar[p].data = committed[p].digest /\ sidecar[p].ro
  /\ last.uuid <= issued
====
